---- MODULE Spec2Model ----
(***************************************************************************)
(* t3tree (src/main.go, current version at lines 225-474): the in-memory   *)
(* page hierarchy index (pages, roots, domains, assoc), its loader, its    *)
(* lookups (isRoot, root, children, domain), the ad-hoc query, and main's  *)
(* selection and output stages.                                            *)
(*                                                                         *)
(* Go maps are functions on a finite domain; slices are sequences.  A Go   *)
(* string that the program escapes is a sequence of one-character strings, *)
(* a printed line is the sequence of its fields before strings.Join.       *)
(***************************************************************************)
EXTENDS Integers, Sequences, FiniteSets, TLC

VARIABLES
    pc,         \* position in the run
    pageRows,   \* rows the pages relation yields (queryPages)
    domainRows, \* rows the domains relation yields, in sort order (queryDomains)
    pages,      \* m.pages   uid -> pid
    roots,      \* m.roots   slice of root uids
    domains,    \* m.domains pid -> domain name
    assoc,      \* m.assoc   uid -> associated data
    flag,       \* command line flags: pid, query, nassoc, children, roots, csv
    uids,       \* main's uids slice
    qids,       \* main's qids slice (result of the last query call)
    out,        \* lines printed on stdout, in order
    err,        \* "" or the fatal error the run ended with
    rootPid,    \* root(): the local pid while the call is running
    rootRet,    \* root(): results returned so far, in call order
    arg         \* the id a lookup specification applies root/children to

vars == <<pc, pageRows, domainRows, pages, roots, domains, assoc, flag,
          uids, qids, out, err, rootPid, rootRet, arg>>

-----------------------------------------------------------------------------
(* Bounds of the model.                                                    *)

\* Page ids of the lookup specifications are 0..MaxId.
MaxId == 3
\* Page ids of the whole-run specification are 1..MaxRunId.
MaxRunId == 2
\* Longest domains relation of the loader specification.
MaxDomainRows == 3
\* Longest domains relation of the run specifications.
MaxRunDomainRows == 1
\* Longest result of the ad-hoc query.
MaxQueryRows == 2

\* Domain names a row may carry; "" is an empty domainName column.
DomainNames == {"a", "b", "c"}
RunDomainNames == {"a", ""}
\* Values of an associated column: x and a lone double quote.
Texts == {<<"x">>, <<"\"">>}
\* Values of -nfields.
NFields == {0, 1}

-----------------------------------------------------------------------------
(* Go maps.                                                                *)

EmptyMap == [k \in {} |-> 0]

Put(m, k, v) == [x \in (DOMAIN m) \cup {k} |-> IF x = k THEN v ELSE m[x]]

Range(s) == {s[i] : i \in DOMAIN s}

\* All sequences over S of length at most n.
SeqsUpTo(S, n) == UNION {[1..k -> S] : k \in 0..n}

-----------------------------------------------------------------------------
(* Relation Loader: loadPages, loadDomains.                                *)

\* loadPages: for each row, m.pages[uid] = pid, and uid is appended to
\* m.roots when isroot || pid == 0.
RECURSIVE loadPagesFrom(_, _, _, _)
loadPagesFrom(rows, i, pg, rt) ==
    IF i > Len(rows) THEN [pages |-> pg, roots |-> rt]
    ELSE LET r == rows[i] IN
         loadPagesFrom(rows, i + 1, Put(pg, r.uid, r.pid),
                       IF r.isroot \/ r.pid = 0 THEN Append(rt, r.uid) ELSE rt)

loadPages(rows) == loadPagesFrom(rows, 1, EmptyMap, <<>>)

\* One row of loadDomains: the row is skipped when m.domains already has the
\* pid (the "&& !forced" of the condition is commented out at line 310, so
\* the scanned forced column is not read).
loadDomainsRow(dm, r) ==
    IF r.pid \in DOMAIN dm THEN dm ELSE Put(dm, r.pid, r.domain)

RECURSIVE loadDomainsFrom(_, _, _)
loadDomainsFrom(rows, i, dm) ==
    IF i > Len(rows) THEN dm
    ELSE loadDomainsFrom(rows, i + 1, loadDomainsRow(dm, rows[i]))

loadDomains(rows) == loadDomainsFrom(rows, 1, EmptyMap)

-----------------------------------------------------------------------------
(* Hierarchy Index: isRoot, root, children, domain.                        *)

\* isRoot as it would be if only the first element of m.roots were compared.
isRootFirstOnly(rt, id) == Len(rt) > 0 /\ rt[1] = id

isRoot(rt, id) == \E i \in DOMAIN rt : rt[i] = id

\* The for loop of root: pid, ok = m.pages[pid]; 0 when !ok; pid when it is
\* a root.  Defined only where the ascent ends (see RootEnter / RootAscend
\* for the loop taken one iteration at a time).
RECURSIVE rootLoop(_, _, _)
rootLoop(pg, rt, id) ==
    IF id \notin DOMAIN pg THEN 0
    ELSE IF isRoot(rt, pg[id]) THEN pg[id]
    ELSE rootLoop(pg, rt, pg[id])

root(pg, rt, id) == IF isRoot(rt, id) THEN id ELSE rootLoop(pg, rt, id)

\* children as it would be without the recursive call of line 365: the
\* direct children only.
RECURSIVE childrenDirectRange(_, _)
childrenDirectRange(pids, todo) ==
    IF todo = {} THEN {pids}
    ELSE UNION { childrenDirectRange(Append(pids, uid), todo \ {uid})
                 : uid \in todo }

childrenDirect(pg, id, pids) ==
    childrenDirectRange(pids, {uid \in DOMAIN pg : pg[uid] = id})

\* children(pid, pids): the set of slices the call can return, one for each
\* order in which "for uid := range m.pages" can visit the keys.  A key with
\* m.pages[uid] != pid leaves pids as it is, so the visiting order matters
\* only among the keys whose parent is pid (todo).
RECURSIVE children(_, _, _), childrenRange(_, _, _, _)
childrenRange(pg, id, pids, todo) ==
    IF todo = {} THEN {pids}
    ELSE UNION { UNION { childrenRange(pg, id, p, todo \ {uid})
                         : p \in children(pg, uid, Append(pids, uid)) }
                 : uid \in todo }

children(pg, id, pids) ==
    childrenRange(pg, id, pids, {uid \in DOMAIN pg : pg[uid] = id})

\* domain as it would be if an unbound root fell back to a default host.
domainOrDefault(dm, id) == IF id \in DOMAIN dm THEN dm[id] ELSE "localhost"

domain(dm, id) == IF id \in DOMAIN dm THEN dm[id] ELSE ""

-----------------------------------------------------------------------------
(* Associated-Row Query Engine: query(sql, nassoc).                        *)

\* The rows loop of query over a result whose rows are [uid, cols]: data is
\* the nassoc scanned columns, m.assoc[uid] = data (also when nassoc is 0,
\* where data is the empty slice), uid is appended to uids.
RECURSIVE queryFrom(_, _, _, _, _)
queryFrom(rows, i, n, ids, as) ==
    IF i > Len(rows) THEN [uids |-> ids, assoc |-> as]
    ELSE LET r == rows[i]
             data == [k \in 1..n |-> r.cols[k]]
         IN queryFrom(rows, i + 1, n, Append(ids, r.uid), Put(as, r.uid, data))

\* query as it would be if m.assoc were written only when nassoc > 0.
queryBareAtZero(rows, n, as) ==
    [uids |-> queryFrom(rows, 1, n, <<>>, as).uids,
     assoc |-> IF n = 0 THEN as ELSE queryFrom(rows, 1, n, <<>>, as).assoc]

query(rows, n, as) == queryFrom(rows, 1, n, <<>>, as)

-----------------------------------------------------------------------------
(* Output Formatter.                                                       *)

\* strconv.Itoa and fmt's %d.
Itoa(v) == ToString(v)

\* intsToString(a, sep): "" for an empty slice, else the decimal ids joined
\* by sep; the string is the sequence of its pieces.
RECURSIVE join(_, _)
join(b, sep) ==
    IF Len(b) = 0 THEN <<>>
    ELSE IF Len(b) = 1 THEN <<b[1]>>
    ELSE <<b[1], sep>> \o join(Tail(b), sep)

intsToString(a, sep) ==
    IF Len(a) = 0 THEN <<>> ELSE join([i \in 1..Len(a) |-> Itoa(a[i])], sep)

\* fmt.Sprintf("https://%s/index.php?id=%d", domain, uid)
url(d, uid) == <<"https://", d, "/index.php?id=", Itoa(uid)>>

\* strings.Replace(s, "\"", "\\\"", -1) on a sequence of characters.
RECURSIVE escapeQuotes(_)
escapeQuotes(s) ==
    IF s = <<>> THEN <<>>
    ELSE (IF Head(s) = "\"" THEN <<"\\", "\"">> ELSE <<Head(s)>>)
         \o escapeQuotes(Tail(s))

\* fmt.Sprintf("\"%s\"", s)
quoted(s) == <<"\"">> \o s \o <<"\"">>

\* The assignments "fields[i+1] = ..." of one printed row: only the indices
\* of assoc (m.assoc[uid], nil when uid has no entry) are written.
setFields(fs, d, uid, as) ==
    LET data == IF uid \in DOMAIN as THEN as[uid] ELSE <<>> IN
    [i \in DOMAIN fs |->
        IF i = 1 THEN quoted(url(d, uid))
        ELSE IF i - 1 \in DOMAIN data THEN quoted(escapeQuotes(data[i - 1]))
        ELSE fs[i]]

\* The URL loop of main (lines 456-473) from position i: fs is the fields
\* slice, allocated once before the loop, lines the rows printed so far.
RECURSIVE printUrls(_, _, _, _, _, _, _, _, _)
printUrls(ids, i, n, pg, rt, dm, as, fs, lines) ==
    IF i > Len(ids) THEN lines
    ELSE LET uid == ids[i]
             d == domain(dm, root(pg, rt, uid))
         IN IF d = "" THEN printUrls(ids, i + 1, n, pg, rt, dm, as, fs, lines)
            ELSE IF n > 0
            THEN LET fs2 == setFields(fs, d, uid, as) IN
                 printUrls(ids, i + 1, n, pg, rt, dm, as, fs2, Append(lines, fs2))
            ELSE printUrls(ids, i + 1, n, pg, rt, dm, as, fs,
                           Append(lines, <<url(d, uid)>>))

-----------------------------------------------------------------------------
(* Contents of the database and of the command line.                       *)

NoRow == [present |-> FALSE, pid |-> 0, isroot |-> FALSE]

\* The rows of a pages relation given as uid -> NoRow or row, by ascending uid.
RECURSIVE rowsOf(_, _)
rowsOf(f, S) ==
    IF S = {} THEN <<>>
    ELSE LET u == CHOOSE x \in S : \A y \in S : x <= y IN
         (IF f[u].present
          THEN <<[uid |-> u, pid |-> f[u].pid, isroot |-> f[u].isroot]>>
          ELSE <<>>) \o rowsOf(f, S \ {u})

\* Every pages relation with at most one row per uid in ids (uid is the
\* primary key) and parent ids in ids or 0.
PageRelations(ids) ==
    { rowsOf(f, ids) :
        f \in [ids -> {NoRow} \cup [present : {TRUE}, pid : ids \cup {0},
                                    isroot : BOOLEAN]] }

\* The ids met by following parent pointers from x, one hop or more.
RECURSIVE chain(_, _, _)
chain(pg, x, n) ==
    IF n = 0 \/ x \notin DOMAIN pg THEN {}
    ELSE {pg[x]} \cup chain(pg, pg[x], n - 1)

Ancestors(pg, x) == chain(pg, x, Cardinality(DOMAIN pg) + 1)

Acyclic(pg) == \A x \in DOMAIN pg : x \notin Ancestors(pg, x)

AcyclicRelations(ids) ==
    { rows \in PageRelations(ids) : Acyclic(loadPages(rows).pages) }

DomainRelations(ids, names, n) ==
    SeqsUpTo([pid : ids, domain : names, forced : BOOLEAN], n)

\* Results of the ad-hoc query with n associated columns.
QueryResults(ids, n) ==
    SeqsUpTo([uid : ids, cols : [1..n -> Texts]], MaxQueryRows)

LookupIds == 0..MaxId
SelectIds == 1..MaxId
RunIds == 1..MaxRunId
\* Root ids of the run's domain rows: a row may also bind the id 0.
RunDomainIds == 0..MaxRunId
\* Ids the ad-hoc query may yield: the page ids and one id with no page.
QueryIds == 1..(MaxRunId + 1)

Flags(ids) ==
    [pid : ids \cup {0}, query : BOOLEAN, nassoc : NFields,
     children : BOOLEAN, roots : BOOLEAN, csv : BOOLEAN]

NoFlags ==
    [pid |-> 0, query |-> FALSE, nassoc |-> 0,
     children |-> FALSE, roots |-> FALSE, csv |-> FALSE]

\* newMysql has returned: the index holds what the two loaders built.
Loaded(prows, drows) ==
    /\ pageRows = prows
    /\ domainRows = drows
    /\ pages = loadPages(prows).pages
    /\ roots = loadPages(prows).roots
    /\ domains = loadDomains(drows)
    /\ assoc = EmptyMap

Idle ==
    /\ uids = <<>>
    /\ qids = <<>>
    /\ out = <<>>
    /\ err = ""
    /\ rootPid = 0
    /\ rootRet = <<>>

-----------------------------------------------------------------------------
(* newMysql: the two loaders, each over the whole relation.                *)

InitLoad ==
    /\ pc = "loadPages"
    /\ pageRows \in PageRelations(RunIds)
    /\ domainRows \in DomainRelations(RunIds, DomainNames, MaxDomainRows)
    /\ pages = EmptyMap
    /\ roots = <<>>
    /\ domains = EmptyMap
    /\ assoc = EmptyMap
    /\ flag = NoFlags
    /\ arg = 0
    /\ Idle

\* How many rows a rows loop has taken when it returns an error: none when
\* db.Query itself fails, k when rows.Scan fails on row k + 1 (a column that
\* does not decode, such as NULL).
FailPoints(rows) == {0} \cup {k \in 0..Len(rows) : k < Len(rows)}

\* newMysql, lines 266-268, with loadPages returning nil.
LoadPages ==
    /\ pc = "loadPages"
    /\ pages' = loadPages(pageRows).pages
    /\ roots' = loadPages(pageRows).roots
    /\ pc' = "loadDomains"
    /\ UNCHANGED <<pageRows, domainRows, domains, assoc, flag, uids, qids,
                   out, err, rootPid, rootRet, arg>>

\* loadPages returns an error (lines 277-279 or 285-287) after k rows;
\* newMysql returns it (line 267) and main ends the run (lines 416-418).
LoadPagesFails ==
    /\ pc = "loadPages"
    /\ \E k \in FailPoints(pageRows) :
         /\ pages' = loadPages(SubSeq(pageRows, 1, k)).pages
         /\ roots' = loadPages(SubSeq(pageRows, 1, k)).roots
    /\ pc' = "fatal"
    /\ err' = "mysql error"
    /\ UNCHANGED <<pageRows, domainRows, domains, assoc, flag, uids, qids,
                   out, rootPid, rootRet, arg>>

\* newMysql, lines 269-272, with loadDomains returning nil.
LoadDomains ==
    /\ pc = "loadDomains"
    /\ domains' = loadDomains(domainRows)
    /\ pc' = "loaded"
    /\ UNCHANGED <<pageRows, domainRows, pages, roots, assoc, flag, uids,
                   qids, out, err, rootPid, rootRet, arg>>

\* loadDomains returns an error (lines 298-300 or 307-309) after k rows;
\* newMysql returns it (line 270) and main ends the run (lines 416-418).
LoadDomainsFails ==
    /\ pc = "loadDomains"
    /\ \E k \in FailPoints(domainRows) :
         domains' = loadDomains(SubSeq(domainRows, 1, k))
    /\ pc' = "fatal"
    /\ err' = "mysql error"
    /\ UNCHANGED <<pageRows, domainRows, pages, roots, assoc, flag, uids,
                   qids, out, rootPid, rootRet, arg>>

NextLoad == LoadPages \/ LoadPagesFails \/ LoadDomains \/ LoadDomainsFails

SpecLoad == InitLoad /\ [][NextLoad]_vars

-----------------------------------------------------------------------------
(* The lookups of a loaded index, applied to one id: root(arg), then root  *)
(* of what it returned, or children(arg, nil).                             *)

InitLookup(relations) ==
    /\ pc = "call"
    /\ \E prows \in relations : Loaded(prows, <<>>)
    /\ arg \in LookupIds
    /\ flag = NoFlags
    /\ Idle

\* The pid parameter of the root call about to run.
rootParam == IF rootRet = <<>> THEN arg ELSE rootRet[Len(rootRet)]

\* root as it would be without lines 372-374: the ascent starts at once.
RootEnterNoCheck ==
    /\ pc = "call"
    /\ rootPid' = rootParam
    /\ pc' = "loop"
    /\ UNCHANGED <<pageRows, domainRows, pages, roots, domains, assoc, flag,
                   uids, qids, out, err, rootRet, arg>>

\* root, lines 372-374: a root is returned as it is.
RootEnter ==
    /\ pc = "call"
    /\ IF isRoot(roots, rootParam)
       THEN /\ rootRet' = Append(rootRet, rootParam)
            /\ pc' = "returned"
            /\ UNCHANGED rootPid
       ELSE /\ rootPid' = rootParam
            /\ pc' = "loop"
            /\ UNCHANGED rootRet
    /\ UNCHANGED <<pageRows, domainRows, pages, roots, domains, assoc, flag,
                   uids, qids, out, err, arg>>

\* root, lines 376-384: one iteration of the for loop.
RootAscend ==
    /\ pc = "loop"
    /\ IF rootPid \notin DOMAIN pages
       THEN /\ rootPid' = 0
            /\ rootRet' = Append(rootRet, 0)
            /\ pc' = "returned"
       ELSE /\ rootPid' = pages[rootPid]
            /\ IF isRoot(roots, pages[rootPid])
               THEN /\ rootRet' = Append(rootRet, pages[rootPid])
                    /\ pc' = "returned"
               ELSE UNCHANGED <<rootRet, pc>>
    /\ UNCHANGED <<pageRows, domainRows, pages, roots, domains, assoc, flag,
                   uids, qids, out, err, arg>>

\* root is applied to the id the first call returned.
RootAgain ==
    /\ pc = "returned"
    /\ Len(rootRet) = 1
    /\ pc' = "call"
    /\ UNCHANGED <<pageRows, domainRows, pages, roots, domains, assoc, flag,
                   uids, qids, out, err, rootPid, rootRet, arg>>

\* children(arg, nil), lines 358-369, for one iteration order of each range.
Children ==
    /\ pc = "call"
    /\ rootRet = <<>>
    /\ uids' \in children(pages, arg, <<>>)
    /\ pc' = "listed"
    /\ UNCHANGED <<pageRows, domainRows, pages, roots, domains, assoc, flag,
                   qids, out, err, rootPid, rootRet, arg>>

NextRoot == RootEnter \/ RootAscend \/ RootAgain

NextIndex == NextRoot \/ Children

\* Lookups on an index whose parent map has no cycle.
InitIndex == InitLookup(AcyclicRelations(LookupIds))

SpecIndex == InitIndex /\ [][NextIndex]_vars

\* root on any index, cyclic parent maps included.  A row that is its own
\* parent makes the loop repeat a single state, which a behaviour cannot tell
\* from stopping, so the cycles drawn here have two ids or more.  The call is
\* sequential code: a step that can be taken is taken.
NoSelfParent(rows) == \A i \in DOMAIN rows : rows[i].pid # rows[i].uid

InitAnyIndex ==
    InitLookup({rows \in PageRelations(LookupIds) : NoSelfParent(rows)})

SpecRootFair == InitAnyIndex /\ [][NextRoot]_vars /\ WF_vars(NextRoot)

-----------------------------------------------------------------------------
(* main after newMysql: selection (lines 419-452) and output (453-474).    *)

\* selectPid as it would be if the three branches excluded one another
\* (if / else if / else): with both flags only the children are taken.
selectPidExclusive(pg, rt, f) ==
    IF f.pid > 0
    THEN IF f.children THEN children(pg, f.pid, <<>>)
         ELSE IF f.roots THEN {<<root(pg, rt, f.pid)>>}
         ELSE {<<f.pid>>}
    ELSE {<<>>}

\* Lines 420-430: the uids the -pid flag contributes, one slice for each
\* iteration order of children.
selectPid(pg, rt, f) ==
    IF f.pid > 0
    THEN { LET withRoot == IF f.roots THEN Append(kids, root(pg, rt, f.pid))
                           ELSE kids
           IN IF ~f.children /\ ~f.roots THEN Append(withRoot, f.pid)
              ELSE withRoot
           : kids \in IF f.children THEN children(pg, f.pid, <<>>) ELSE {<<>>} }
    ELSE {<<>>}

\* Lines 436-440: uids = m.children(qid, uids) for each qid in order.
RECURSIVE childrenOfAll(_, _, _, _)
childrenOfAll(pg, qs, i, ids) ==
    IF i > Len(qs) THEN {ids}
    ELSE UNION { childrenOfAll(pg, qs, i + 1, more)
                 : more \in children(pg, qs[i], ids) }

\* Lines 441-445: uids = append(uids, m.root(qid)) for each qid in order.
rootOfAll(pg, rt, qs, ids) ==
    ids \o [i \in 1..Len(qs) |-> root(pg, rt, qs[i])]

\* Lines 436-448: the uids after the query's ids qs are combined with ids.
selectQuery(pg, rt, f, ids, qs) ==
    { LET withRoots == IF f.roots THEN rootOfAll(pg, rt, qs, kids) ELSE kids
      IN IF ~f.children /\ ~f.roots THEN qs ELSE withRoots
      : kids \in IF f.children THEN childrenOfAll(pg, qs, 1, ids) ELSE {ids} }

\* The test of line 450 as it would be if it never held.
noUidsNever(ids) == FALSE

\* Line 450: len(uids) == 0.
noUids(ids) == Len(ids) = 0

MainPid ==
    /\ pc = "pid"
    /\ uids' \in selectPid(pages, roots, flag)
    /\ pc' = "query"
    /\ UNCHANGED <<pageRows, domainRows, pages, roots, domains, assoc, flag,
                   qids, out, err, rootPid, rootRet, arg>>

\* Lines 431-449 with -query given and a result of nassoc+1 columns.
MainQuery ==
    /\ pc = "query"
    /\ flag.query
    /\ \E rows \in QueryResults(QueryIds, flag.nassoc) :
         LET q == query(rows, flag.nassoc, assoc) IN
         /\ qids' = q.uids
         /\ assoc' = q.assoc
         /\ uids' \in selectQuery(pages, roots, flag, uids, q.uids)
    /\ pc' = "check"
    /\ UNCHANGED <<pageRows, domainRows, pages, roots, domains, flag, out,
                   err, rootPid, rootRet, arg>>

\* Lines 432-435 with query returning an error: db.Query refuses the text
\* (lines 319-322, no row taken) or rows.Scan fails on row k + 1 (lines
\* 336-338) after line 343 has recorded the k rows before it.  query returns
\* nil ids, uids stays as it was and the run ends (log.Fatalf).
MainQueryFails ==
    /\ pc = "query"
    /\ flag.query
    /\ \E rows \in QueryResults(QueryIds, flag.nassoc) :
         \E k \in FailPoints(rows) :
             assoc' = query(SubSeq(rows, 1, k), flag.nassoc, assoc).assoc
    /\ qids' = <<>>
    /\ pc' = "fatal"
    /\ err' = "cannot execute argument query"
    /\ UNCHANGED <<pageRows, domainRows, pages, roots, domains, flag, uids,
                   out, rootPid, rootRet, arg>>

\* Line 431 with no -query.
MainNoQuery ==
    /\ pc = "query"
    /\ ~flag.query
    /\ pc' = "check"
    /\ UNCHANGED <<pageRows, domainRows, pages, roots, domains, assoc, flag,
                   uids, qids, out, err, rootPid, rootRet, arg>>

\* Lines 450-452.
MainNoUids ==
    /\ pc = "check"
    /\ noUids(uids)
    /\ pc' = "fatal"
    /\ err' = "no UIDs found"
    /\ UNCHANGED <<pageRows, domainRows, pages, roots, domains, assoc, flag,
                   uids, qids, out, rootPid, rootRet, arg>>

\* Lines 453-454: the id list.
MainCsv ==
    /\ pc = "check"
    /\ ~noUids(uids)
    /\ flag.csv
    /\ out' = <<  <<intsToString(uids, ", ")>>  >>
    /\ pc' = "done"
    /\ UNCHANGED <<pageRows, domainRows, pages, roots, domains, assoc, flag,
                   uids, qids, err, rootPid, rootRet, arg>>

\* Lines 455-473: one line per uid with a domain.
MainUrls ==
    /\ pc = "check"
    /\ ~noUids(uids)
    /\ ~flag.csv
    /\ out' = printUrls(uids, 1, flag.nassoc, pages, roots, domains, assoc,
                        [i \in 1..(flag.nassoc + 1) |-> <<>>], <<>>)
    /\ pc' = "done"
    /\ UNCHANGED <<pageRows, domainRows, pages, roots, domains, assoc, flag,
                   uids, qids, err, rootPid, rootRet, arg>>

InitMain(relations, drelations, flags) ==
    /\ pc = "pid"
    /\ \E prows \in relations, drows \in drelations : Loaded(prows, drows)
    /\ flag \in flags
    /\ arg = 0
    /\ Idle

\* The whole run on every index over RunIds.
Init ==
    InitMain(AcyclicRelations(RunIds),
             DomainRelations(RunDomainIds, RunDomainNames, MaxRunDomainRows),
             Flags(RunIds))

Next ==
    \/ MainPid
    \/ MainQuery
    \/ MainQueryFails
    \/ MainNoQuery
    \/ MainNoUids
    \/ MainCsv
    \/ MainUrls

Spec == Init /\ [][Next]_vars

\* The selection by -pid alone, on every index over SelectIds.
InitSelect ==
    InitMain(AcyclicRelations(SelectIds), {<<>>},
             {f \in Flags(SelectIds) : ~f.query /\ f.nassoc = 0 /\ ~f.csv})

NextSelect == MainPid \/ MainNoQuery \/ MainNoUids \/ MainUrls

SpecSelect == InitSelect /\ [][NextSelect]_vars

-----------------------------------------------------------------------------
(* What the lookups are to compute, stated on the relation itself.         *)

RootSet == Range(roots)

\* The id reached from x after k parent hops: <<id>>, or <<>> when a hop
\* starts at an id with no entry in the parent map.
RECURSIVE hop(_, _, _)
hop(pg, x, k) ==
    IF k = 0 THEN <<x>>
    ELSE LET h == hop(pg, x, k - 1) IN
         IF h = <<>> \/ h[1] \notin DOMAIN pg THEN <<>> ELSE <<pg[h[1]]>>

MaxHops == Cardinality(DOMAIN pages) + 1

\* The hop counts (one or more) at which the chain from x stands on a root.
RootHops(x) ==
    {k \in 1..MaxHops : hop(pages, x, k) # <<>> /\ hop(pages, x, k)[1] \in RootSet}

\* The chain from x reaches an id with no entry before it meets any root.
BrokenChain(x) ==
    \E k \in 0..MaxHops :
        /\ hop(pages, x, k) # <<>>
        /\ hop(pages, x, k)[1] \notin DOMAIN pages
        /\ \A j \in 1..k : hop(pages, x, j)[1] \notin RootSet

NearestRoot(x) ==
    IF x \in RootSet THEN x
    ELSE IF RootHops(x) # {}
    THEN LET k == CHOOSE i \in RootHops(x) : \A j \in RootHops(x) : i <= j
         IN hop(pages, x, k)[1]
    ELSE 0

\* The ids from which y is reached by one parent hop or more.
Descendants(y) == {x \in DOMAIN pages : y \in Ancestors(pages, x)}

NoDuplicates(s) == \A i, j \in DOMAIN s : s[i] = s[j] => i = j

\* The argument of the i-th root call of a lookup run.
ParamOf(i) == IF i = 1 THEN arg ELSE rootRet[i - 1]

\* C3: on an acyclic parent map children(y, nil) returns, for every order of
\* iteration, exactly the ids from which y is reached by one or more parent
\* hops, each once, and never y itself.
C3_ChildrenComplete ==
    pc = "listed" =>
        /\ Range(uids) = Descendants(arg)
        /\ NoDuplicates(uids)
        /\ arg \notin Range(uids)

\* children has returned a descendant that is not a direct child.
C3_Witness ==
    /\ pc = "listed"
    /\ Len(uids) >= 3
    /\ \E x \in Range(uids) : pages[x] # arg

\* C4 as claimed: on every acyclic index and for every id x,
\* root(root(x)) = root(x).
C4_RootIdempotent ==
    Len(rootRet) = 2 => rootRet[2] = rootRet[1]

\* C4 as amended: root(root(x)) = root(x) whenever root(x) is not the
\* sentinel 0, or id 0 has no row in the pages relation, or id 0 is a root.
C4_RootIdempotentOffSentinel ==
    (/\ Len(rootRet) = 2
     /\ (rootRet[1] # 0 \/ 0 \notin DOMAIN pages \/ 0 \in RootSet))
        => rootRet[2] = rootRet[1]

\* root climbed over a non-root parent to a root and was applied to that
\* root.
C4_Witness ==
    /\ Len(rootRet) = 2
    /\ arg \in DOMAIN pages
    /\ arg \notin RootSet
    /\ rootRet[1] \in RootSet
    /\ rootRet[1] # 0
    /\ pages[arg] # rootRet[1]

\* C8: root(id) eventually returns on every parent map, cyclic ones
\* included, or ends in a CycleError.
C8_RootReturns == <>(Len(rootRet) >= 1 \/ err = "CycleError")

\* C9: on an acyclic index root(id) is id when id is a root; otherwise the
\* first root met following parent pointers upward, and 0 exactly when the
\* ascent reaches an id with no entry before meeting a root; so the result
\* is 0 or a member of the root set.
C9_RootIsNearestRoot ==
    \A i \in DOMAIN rootRet :
        /\ rootRet[i] = NearestRoot(ParamOf(i))
        /\ ParamOf(i) \in RootSet => rootRet[i] = ParamOf(i)
        /\ ParamOf(i) \notin RootSet =>
               (rootRet[i] = 0 <=> BrokenChain(ParamOf(i)))
        /\ rootRet[i] \in RootSet \cup {0}

\* root passed over a non-root parent before it returned a root.
C9_Witness ==
    /\ Len(rootRet) >= 1
    /\ arg \in DOMAIN pages
    /\ arg \notin RootSet
    /\ rootRet[1] \in RootSet
    /\ pages[arg] # rootRet[1]
    /\ rootRet[1] # 0

\* The recursive root used by main computes what the loop of RootEnter and
\* RootAscend returns.
RootOperatorAgrees ==
    \A i \in DOMAIN rootRet : rootRet[i] = root(pages, roots, ParamOf(i))

-----------------------------------------------------------------------------
(* Claims about the loader.                                                *)

\* The positions of the domain rows for root id r, and among them those
\* after the first that are forced.
RowsFor(r) == {i \in DOMAIN domainRows : domainRows[i].pid = r}

FirstRowFor(r) == CHOOSE i \in RowsFor(r) : \A j \in RowsFor(r) : i <= j

ForcedLaterRowsFor(r) ==
    {i \in RowsFor(r) : i > FirstRowFor(r) /\ domainRows[i].forced}

\* The binding the precedence rule gives r: the last forced later row when
\* there is one, otherwise the first row.
BindingFor(r) ==
    IF ForcedLaterRowsFor(r) # {}
    THEN domainRows[CHOOSE i \in ForcedLaterRowsFor(r) :
                        \A j \in ForcedLaterRowsFor(r) : j <= i].domain
    ELSE domainRows[FirstRowFor(r)].domain

\* C1: after loadDomains has consumed the rows in sort order, every root id
\* with a row is bound to the name of its last forced row after the first,
\* and to the name of its first row when no later row is forced.
C1_DomainPrecedence ==
    pc = "loaded" =>
        \A r \in RunIds :
            RowsFor(r) # {} => domain(domains, r) = BindingFor(r)

-----------------------------------------------------------------------------
(* Claims about the run.                                                   *)

Last(s) == s[Len(s)]

Front(s) == SubSeq(s, 1, Len(s) - 1)

DomainOf(r) == IF r \in DOMAIN domains THEN domains[r] ELSE ""

\* s lists exactly the descendants of p, each once.
ListsDescendants(s, p) ==
    /\ Range(s) = Descendants(p)
    /\ NoDuplicates(s)
    /\ p \notin Range(s)

\* C2: with an explicit id p > 0 and no query the final sequence is [p]
\* with neither flag, the descendants of p (each once, p absent) with the
\* children flag, [root(p)] with the roots flag, and the descendants of p
\* followed by root(p) with both, on every acyclic parent map.
C2_SelectionByPid ==
    (pc \in {"check", "done", "fatal"} /\ flag.pid > 0 /\ ~flag.query) =>
        /\ (~flag.children /\ ~flag.roots) => uids = <<flag.pid>>
        /\ (flag.children /\ ~flag.roots) => ListsDescendants(uids, flag.pid)
        /\ (~flag.children /\ flag.roots) => uids = <<NearestRoot(flag.pid)>>
        /\ (flag.children /\ flag.roots) =>
               /\ Len(uids) >= 1
               /\ ListsDescendants(Front(uids), flag.pid)
               /\ Last(uids) = NearestRoot(flag.pid)

\* Both flags: a child of p, a child of that child, then the root of p.
C2_Witness ==
    /\ pc = "check"
    /\ flag.pid > 0 /\ ~flag.query /\ flag.children /\ flag.roots
    /\ Len(uids) = 3
    /\ pages[uids[2]] = uids[1]
    /\ uids[3] \in RootSet

\* The elements of ids whose resolved root has a non-empty domain, in order.
RECURSIVE BoundIds(_)
BoundIds(ids) ==
    IF ids = <<>> THEN <<>>
    ELSE (IF DomainOf(NearestRoot(Head(ids))) # "" THEN <<Head(ids)>> ELSE <<>>)
         \o BoundIds(Tail(ids))

UrlMode == pc = "done" /\ ~flag.csv

\* C5: in URL mode the lines are, in order, one for each element of the final
\* sequence whose domain(root(id)) is non-empty, built from that domain and
\* that id; an element with no domain gives no line.
C5_UrlModeSkipsUnbound ==
    UrlMode =>
        /\ Len(out) = Len(BoundIds(uids))
        /\ \A k \in DOMAIN out :
               LET u == BoundIds(uids)[k]
                   link == url(DomainOf(NearestRoot(u)), u)
               IN /\ Len(out[k]) = flag.nassoc + 1
                  /\ out[k][1] = IF flag.nassoc > 0 THEN quoted(link) ELSE link

\* An id without a domain was skipped and a later id, below a bound root,
\* was printed.
C5_Witness ==
    /\ UrlMode
    /\ Len(uids) >= 2
    /\ DomainOf(NearestRoot(uids[1])) = ""
    /\ DomainOf(NearestRoot(uids[2])) # ""
    /\ NearestRoot(uids[2]) \notin {0, uids[2]}
    /\ Len(out) >= 1

\* The i-th associated field as printed for the values recorded for v.
FieldOf(v, i) == quoted(escapeQuotes(assoc[v][i]))

\* C6: in URL mode with n > 0 every printed row carries, after the URL, the
\* values the query recorded for the row's own id, and no row carries a
\* value recorded for a different id.
C6_AssocPassthrough ==
    (UrlMode /\ flag.nassoc > 0) =>
        \A k \in DOMAIN out :
            LET u == BoundIds(uids)[k] IN
            \A i \in 1..flag.nassoc :
                IF u \in DOMAIN assoc
                THEN out[k][i + 1] = FieldOf(u, i)
                ELSE \A v \in DOMAIN assoc : out[k][i + 1] # FieldOf(v, i)

\* C7: whenever the final id sequence is empty the run ends fatally with
\* "no UIDs found" and prints nothing, and the formatter runs only on a
\* non-empty sequence.
C7_EmptySelectionFatal ==
    /\ pc = "done" => ~(uids = <<>>)
    /\ out # <<>> => ~(uids = <<>>)
    /\ (pc \in {"done", "fatal"} /\ uids = <<>>
            /\ err # "cannot execute argument query")
           => (pc = "fatal" /\ err = "no UIDs found" /\ out = <<>>)
    /\ err = "no UIDs found" => (uids = <<>> /\ out = <<>>)

\* An explicit id and a non-empty query result, expanded to children, left
\* nothing and the run ended fatally.
C7_Witness ==
    /\ pc = "fatal"
    /\ err = "no UIDs found"
    /\ flag.pid > 0 /\ flag.query /\ flag.children
    /\ qids # <<>>

\* The step in which query(sql, 0) runs and returns.
QueryZeroStep ==
    pc = "query" /\ pc' = "check" /\ flag.query /\ flag.nassoc = 0

\* C10 as claimed: query(sql, 0) leaves the associated-row map, the parent
\* map, the root set and the domain map unchanged.
C10_QueryZeroNoEffect ==
    [][QueryZeroStep =>
          (assoc' = assoc /\ pages' = pages /\ roots' = roots
              /\ domains' = domains)]_vars

\* C10 as amended: query(sql, 0) leaves the parent map, the root set and the
\* domain map unchanged; in the associated-row map every returned id gets
\* the empty sequence and every other entry is unchanged.
C10_QueryZeroRecordsEmpty ==
    [][QueryZeroStep =>
          /\ pages' = pages /\ roots' = roots /\ domains' = domains
          /\ DOMAIN assoc' = DOMAIN assoc \cup Range(qids')
          /\ \A u \in Range(qids') : assoc'[u] = <<>>
          /\ \A u \in DOMAIN assoc \ Range(qids') : assoc'[u] = assoc[u]]_vars

\* query(sql, 0) has returned two ids.
C10_Witness ==
    /\ pc = "check"
    /\ flag.query /\ flag.nassoc = 0
    /\ Len(qids) >= 2
    /\ DOMAIN assoc = Range(qids)

====
